---- MODULE Spec2Model ----
(***************************************************************************)
(* A model of pytest-flakiness: the upload client (uploader.py), the event *)
(* aggregator (plugin.py, reporter.py) and the credential resolver         *)
(* (github_oidc.py).                                                       *)
(*                                                                         *)
(* SpecUpload    one call of upload_report, one step per HTTP exchange.    *)
(* SpecReporter  the hooks pytest_runtest_makereport, _logreport and       *)
(*               pytest_sessionfinish, one step per hook call.             *)
(* SpecFunctions calls of Reporter.normalize_path and parse_test_title on  *)
(*               arguments drawn from bounded sets.                        *)
(* SpecOidc      GithubOIDC.init_from_env and one call of fetch_token, one *)
(*               step per HTTP exchange.                                   *)
(***************************************************************************)
EXTENDS Integers, Sequences, FiniteSets, TLC

VARIABLES
    (* ---- upload_report: its arguments and the world it runs in ---- *)
    attachments,      \* List[FileAttachment]: the argument of upload_report
    path_type,        \* the runtime type of every attachment's "path" value
    files,            \* what the filesystem holds at each attachment path
    report_dumps,     \* whether json.dumps(report) succeeds
    https,            \* whether the URLs contacted are https:// URLs
    (* ---- upload_report: its locals ---- *)
    u_pc,             \* the statement upload_report is at
    tries,            \* retries urllib3 has spent on the request in flight
    upload_data,      \* start_resp.json()
    att_idx,          \* position of the for loop over attachments
    requests,         \* every request handed to the session, in order
    response,         \* what the last HTTP exchange ended in, if any
    u_exc,            \* the exception raised inside the try block, if any
    u_outcome,        \* what upload_report printed last
    u_propagated,     \* whether an exception left upload_report
    full_url,         \* the viewer URL printed on success
    (* ---- the Reporter and the run it lives in ---- *)
    os_sep,           \* the path separator of the host's path flavour
    git_root,         \* Reporter.git_root
    pytest_root,      \* Reporter.pytest_root
    now,              \* int(time.time() * 1000)
    start_time,       \* Reporter.start_time
    tests,            \* Reporter.tests
    pending,          \* the report made by makereport, not yet logged
    n_reports,        \* how many reports the runner has made
    payload,          \* report_payload of pytest_sessionfinish
    flakiness_output_dir, \* config option --flakiness-output-dir, if given
    report_file,      \* the path of the local report file, if it exists
    report_json,      \* the document json.dump wrote to it, if any
    s_propagated,     \* whether an exception left pytest_sessionfinish
    (* ---- calls of the Reporter's pure methods ---- *)
    arg_fspath,       \* the argument of normalize_path, if it is called
    normalized,       \* the results of normalize_path, applied in turn to
                      \* the argument and then to its own result
    arg_nodeid,       \* the argument of parse_test_title, if it is called
    parsed_title,     \* the result of parse_test_title, if it returned
    (* ---- GithubOIDC and the environment it is created from ---- *)
    environ,          \* os.environ: the two ACTIONS_ID_TOKEN_REQUEST_* values
    oidc,             \* the result of init_from_env, once it was called
    audience,         \* the argument of fetch_token
    o_pc,             \* the statement the resolver is at
    o_tries,          \* retries urllib3 has spent on the GET in flight
    o_sent,           \* the GET requests sent, in order
    o_response,       \* the response session.get returned, if it did
    o_token,          \* the value fetch_token returned, if it did
    o_exc             \* the exception that left fetch_token, if any

rvars == <<os_sep, git_root, pytest_root, now, start_time, tests, pending,
           n_reports, payload, flakiness_output_dir, report_file, report_json,
           s_propagated>>

uvars == <<attachments, path_type, files, report_dumps, https, u_pc, tries,
           upload_data, att_idx, requests, response, u_exc, u_outcome,
           u_propagated, full_url>>

fvars == <<arg_fspath, normalized, arg_nodeid, parsed_title>>

ovars == <<environ, oidc, audience, o_pc, o_tries, o_sent,
           o_response, o_token, o_exc>>

vars == <<uvars, rvars, fvars, ovars>>

(***************************************************************************)
(* Bounds.                                                                 *)
(***************************************************************************)
MaxAttachments == 2
MaxReports == 2
MaxPathLen == 3
MaxIdLen == 7

\* The clock's reading when the Reporter is constructed, in ms.
Epoch == 10

\* Optional values: None is the empty sequence, a value x is <<x>>.
None == <<>>
Some(x) == <<x>>

(***************************************************************************)
(* uploader.py                                                             *)
(***************************************************************************)

\* Retry(total=5, ...)
RetryTotal == 5

\* Retry(status_forcelist=[500, 502, 503, 504])
status_forcelist == {500, 502, 503, 504}

\* The responses one HTTP exchange can end in: a status code, or no response
\* at all (connection failure, or the timeout= of the call expiring).
NoResponse == 0
Statuses == {200, 403, 503}
Responses == Statuses \cup {NoResponse}

\* Retry(total=None): no limit on the number of retries.
max_retries_unlimited == IF https THEN tries + 1 ELSE 0

\* session.mount("https://", HTTPAdapter(max_retries=retries)): the retrying
\* adapter serves https:// URLs only; any other URL goes through the default
\* adapter of requests.Session(), which does not retry.
max_retries == IF https THEN RetryTotal ELSE 0

\* urllib3's Retry: a response whose status is in status_forcelist, and a
\* failed exchange, both count against the total.
Retryable(r) == r = NoResponse \/ r \in status_forcelist

\* Response.raise_for_status(): HTTPError for 4xx and 5xx.
raise_for_status(r) == r >= 400 /\ r < 600

\* class FileAttachment(TypedDict): contentType, id, path.  Identifiers are
\* distinct; attachment i lives at path i.
FileAttachment(i) == [contentType |-> "image/png", id |-> i, path |-> i]

PathTypes == {"str", "Path"}
FileStates == {"missing", "readable", "unreadable"}

\* What json.dumps makes of one element of a list: a JSON string of a str, a
\* JSON object with every key of a dict.
JsonString(s) == [type |-> "string", keys |-> {}, value |-> s]
JsonObject(d) == [type |-> "object", keys |-> DOMAIN d, value |-> d.id]

\* json={"attachmentIds": attachments}: the value handed to the JSON encoder
\* is the attachments list itself, a list of FileAttachment dicts.
attachmentIds(atts) == [k \in 1..Len(atts) |-> JsonObject(atts[k])]

\* requests encodes json= with json.dumps, which raises TypeError on a
\* pathlib.Path anywhere inside the value.
JsonEncodable(body) ==
    \A k \in 1..Len(body) :
        "path" \in body[k].keys => path_type = "str"

\* start_resp.json(): not JSON at all, or an object that may lack the keys
\* report_upload_url and upload_token and maps some identifiers to URLs.
NoData == [json |-> FALSE, report_upload_url |-> FALSE, upload_token |-> FALSE,
           attachment_upload_urls |-> {}]
StartBodies ==
    {NoData}
    \cup { [json |-> TRUE, report_upload_url |-> FALSE, upload_token |-> FALSE,
            attachment_upload_urls |-> {}] }
    \cup { [json |-> TRUE, report_upload_url |-> TRUE, upload_token |-> t,
            attachment_upload_urls |-> u] :
              t \in BOOLEAN, u \in SUBSET (1..Len(attachments)) }

\* finish_resp.json(): not JSON, or an object with no report_url, an absolute
\* one or a service-relative one.
FinishBodies == {"not_json", "no_report_url", "http_url", "relative_url"}

\* except Exception as e: every exception the try block raises is an
\* Exception (HTTPError, ConnectionError, Timeout, RetryError, TypeError,
\* KeyError, JSONDecodeError, OSError).
ExceptionKinds == {"http_status", "transport", "malformed_body",
                   "incomplete_body", "serialization", "file_error"}
NoExc == [phase |-> "none", kind |-> "none"]
except_Exception(e) == e.kind \in ExceptionKinds

\* One request handed to the session.
Request(req, att, body) ==
    [body |-> body, req |-> req, att |-> att, status |-> "pending"]

\* The log after the request in flight was (re)sent: it is appended when the
\* call is made, and a retry sends the same request again.
Sent(r) == IF tries = 0 THEN Append(requests, r) ELSE requests

\* The log with the status of the request in flight settled.
Settle(log, s) == [log EXCEPT ![Len(log)].status = s]

\* Leaving the try block by an exception: the handler prints "Upload failed".
Raise(phase, kind, log) ==
    LET e == [phase |-> phase, kind |-> kind] IN
    /\ u_exc' = e
    /\ requests' = log
    /\ u_pc' = "done"
    /\ tries' = 0
    /\ u_outcome' = IF except_Exception(e) THEN "failed" ELSE u_outcome
    /\ u_propagated' = ~except_Exception(e)
    /\ UNCHANGED <<upload_data, att_idx, full_url>>

\* urllib3 sends the request again.
Retry(log) ==
    /\ tries' = tries + 1
    /\ requests' = log
    /\ UNCHANGED <<u_pc, upload_data, att_idx, u_exc, u_outcome, u_propagated,
                   full_url>>

\* A loop that is left after its first pass.
AfterAttachment_break(i) == "complete"

\* The statement after the attachment at position i - 1 (or after the report
\* PUT, i = 1): the next iteration of the loop, or the completeUpload POST.
AfterAttachment(i) == IF i > Len(attachments) THEN "complete" ELSE "attach"

UploadInit ==
    /\ \E n \in 0..MaxAttachments :
          /\ attachments = [i \in 1..n |-> FileAttachment(i)]
          /\ files \in [1..n -> FileStates]
    /\ path_type \in PathTypes
    /\ report_dumps \in BOOLEAN
    /\ https \in BOOLEAN
    /\ u_pc = "start"
    /\ tries = 0
    /\ upload_data = NoData
    /\ att_idx = 1
    /\ requests = <<>>
    /\ response = None
    /\ u_exc = NoExc
    /\ u_outcome = "none"
    /\ u_propagated = FALSE
    /\ full_url = <<>>

\* session.post(f"{endpoint}/api/run/startUpload", ...); raise_for_status();
\* upload_data = start_resp.json()
StartUpload(r, data) ==
    /\ u_pc = "start"
    /\ LET body == attachmentIds(attachments)
           log == Sent(Request("startUpload", 0, body)) IN
       IF ~JsonEncodable(body)
       THEN Raise("start", "serialization", requests)
       ELSE IF Retryable(r) /\ tries < max_retries
       THEN Retry(log)
       ELSE IF r = NoResponse \/ (Retryable(r) /\ https)
       THEN Raise("start", "transport", Settle(log, "raised"))
       ELSE IF raise_for_status(r)
       THEN Raise("start", "http_status", Settle(log, "http_error"))
       ELSE IF ~data.json
       THEN Raise("start", "malformed_body", Settle(log, "ok"))
       ELSE /\ upload_data' = data
            /\ requests' = Settle(log, "ok")
            /\ u_pc' = "report"
            /\ tries' = 0
            /\ UNCHANGED <<att_idx, u_exc, u_outcome, u_propagated, full_url>>
    /\ response' = IF JsonEncodable(attachmentIds(attachments))
                   THEN Some(r) ELSE response
    /\ UNCHANGED <<attachments, path_type, files, report_dumps, https, rvars,
                   fvars, ovars>>

\* json.dumps(report); brotli.compress; session.put(report_upload_url, ...);
\* upload_urls = upload_data.get("attachment_upload_urls", {})
PutReport(r) ==
    /\ u_pc = "report"
    /\ LET log == Sent(Request("report", 0, <<>>)) IN
       IF ~report_dumps
       THEN Raise("report", "serialization", requests)
       ELSE IF ~upload_data.report_upload_url
       THEN Raise("report", "incomplete_body", requests)
       ELSE IF Retryable(r) /\ tries < max_retries
       THEN Retry(log)
       ELSE IF r = NoResponse \/ (Retryable(r) /\ https)
       THEN Raise("report", "transport", Settle(log, "raised"))
       ELSE /\ requests' = Settle(log, IF raise_for_status(r)
                                       THEN "http_error" ELSE "ok")
            /\ att_idx' = 1
            /\ u_pc' = AfterAttachment(1)
            /\ tries' = 0
            /\ UNCHANGED <<upload_data, u_exc, u_outcome, u_propagated,
                           full_url>>
    /\ response' = IF report_dumps /\ upload_data.report_upload_url
                   THEN Some(r) ELSE response
    /\ UNCHANGED <<attachments, path_type, files, report_dumps, https, rvars,
                   fvars, ovars>>

\* if att_info["id"] not in upload_urls: continue
SkipUnmapped ==
    /\ u_pc = "attach"
    /\ attachments[att_idx].id \notin upload_data.attachment_upload_urls
    /\ att_idx' = att_idx + 1
    /\ u_pc' = AfterAttachment(att_idx + 1)
    /\ UNCHANGED <<attachments, path_type, files, report_dumps, https, tries,
                   upload_data, requests, response, u_exc, u_outcome, u_propagated,
                   full_url, rvars, fvars, ovars>>

\* if not os.path.exists(file_path): print warning; continue
SkipMissing ==
    /\ u_pc = "attach"
    /\ attachments[att_idx].id \in upload_data.attachment_upload_urls
    /\ files[attachments[att_idx].path] = "missing"
    /\ att_idx' = att_idx + 1
    /\ u_pc' = AfterAttachment(att_idx + 1)
    /\ UNCHANGED <<attachments, path_type, files, report_dumps, https, tries,
                   upload_data, requests, response, u_exc, u_outcome, u_propagated,
                   full_url, rvars, fvars, ovars>>

\* os.path.getsize; with open(file_path, "rb") as f: session.put(...)
PutAttachment(r) ==
    /\ u_pc = "attach"
    /\ attachments[att_idx].id \in upload_data.attachment_upload_urls
    /\ files[attachments[att_idx].path] # "missing"
    /\ LET log == Sent(Request("attachment", att_idx, <<>>)) IN
       IF files[attachments[att_idx].path] = "unreadable"
       THEN Raise("attachment", "file_error", requests)
       ELSE IF Retryable(r) /\ tries < max_retries
       THEN Retry(log)
       ELSE IF r = NoResponse \/ (Retryable(r) /\ https)
       THEN Raise("attachment", "transport", Settle(log, "raised"))
       ELSE /\ requests' = Settle(log, IF raise_for_status(r)
                                       THEN "http_error" ELSE "ok")
            /\ att_idx' = att_idx + 1
            /\ u_pc' = AfterAttachment(att_idx + 1)
            /\ tries' = 0
            /\ UNCHANGED <<upload_data, u_exc, u_outcome, u_propagated,
                           full_url>>
    /\ response' = IF files[attachments[att_idx].path] = "unreadable"
                   THEN response ELSE Some(r)
    /\ UNCHANGED <<attachments, path_type, files, report_dumps, https, rvars,
                   fvars, ovars>>

\* session.post(f"{endpoint}/api/run/completeUpload", ...); raise_for_status();
\* result = finish_resp.json(); report_url = result.get("report_url"); print
CompleteUpload(r, result) ==
    /\ u_pc = "complete"
    /\ LET log == Sent(Request("completeUpload", 0, <<>>)) IN
       IF ~upload_data.upload_token
       THEN Raise("complete", "incomplete_body", requests)
       ELSE IF Retryable(r) /\ tries < max_retries
       THEN Retry(log)
       ELSE IF r = NoResponse \/ (Retryable(r) /\ https)
       THEN Raise("complete", "transport", Settle(log, "raised"))
       ELSE IF raise_for_status(r)
       THEN Raise("complete", "http_status", Settle(log, "http_error"))
       ELSE IF result = "not_json"
       THEN Raise("complete", "malformed_body", Settle(log, "ok"))
       ELSE /\ requests' = Settle(log, "ok")
            /\ full_url' = IF result = "no_report_url" THEN <<>>
                           ELSE IF result = "http_url" THEN <<"report_url">>
                           ELSE <<"endpoint", "report_url">>
            /\ u_outcome' = "uploaded"
            /\ u_pc' = "done"
            /\ tries' = 0
            /\ UNCHANGED <<upload_data, att_idx, u_exc, u_propagated>>
    /\ response' = IF upload_data.upload_token THEN Some(r) ELSE response
    /\ UNCHANGED <<attachments, path_type, files, report_dumps, https, rvars,
                   fvars, ovars>>

upload_report ==
    \/ \E r \in Responses, data \in StartBodies : StartUpload(r, data)
    \/ \E r \in Responses : PutReport(r)
    \/ SkipUnmapped
    \/ SkipMissing
    \/ \E r \in Responses : PutAttachment(r)
    \/ \E r \in Responses, result \in FinishBodies : CompleteUpload(r, result)

(***************************************************************************)
(* plugin.py and reporter.py                                               *)
(***************************************************************************)

\* A pathlib.Path: whether it is absolute, and its components.
Path(absolute, parts) == [absolute |-> absolute, parts |-> parts]

\* Reporter.__init__: self.git_root = git_root.resolve() and self.pytest_root
\* are absolute directories, written as their components.  The run root is
\* the repository root, a directory inside it, or a directory elsewhere.
GitRoots == {<<"repo">>, <<"repo", "sub">>}
PytestRoots == {<<"repo">>, <<"repo", "sub">>, <<"ext">>}

\* Path.resolve(): ".." steps back one component (never above the root).
RECURSIVE resolve(_, _)
resolve(done, rest) ==
    IF rest = <<>> THEN done
    ELSE IF Head(rest) = ".."
    THEN resolve(IF done = <<>> THEN done ELSE SubSeq(done, 1, Len(done) - 1),
                 Tail(rest))
    ELSE resolve(Append(done, Head(rest)), Tail(rest))

\* str(path) of a relative path: its components joined by the separator of
\* the host's path flavour; "." for the empty path.
RECURSIVE str_path(_, _)
str_path(parts, sep) ==
    IF parts = <<>> THEN <<".">>
    ELSE IF Len(parts) = 1 THEN parts
    ELSE <<Head(parts), sep>> \o str_path(Tail(parts), sep)

\* Reporter.normalize_path
normalize_path(fspath) ==
    LET path_obj == IF fspath.absolute THEN fspath.parts
                    ELSE pytest_root \o fspath.parts
        full_path == resolve(<<>>, path_obj)
        inside == /\ Len(full_path) >= Len(git_root)
                  /\ SubSeq(full_path, 1, Len(git_root)) = git_root
    IN  IF inside
        THEN Some(str_path(SubSeq(full_path, Len(git_root) + 1,
                                  Len(full_path)), os_sep))
        ELSE None

\* str(x) of an Optional[NormalizedPath]: the path, or the text "None".
str_optional(p) == IF p = None THEN <<"None">> ELSE p[1]

\* Path(fspath) of a str: the components between separators, "." dropped.
\* The Windows flavour takes both "\\" and "/" as separators, the POSIX
\* flavour "/" only; a path that starts with a separator is absolute.
PathOf(s) ==
    LET seps == IF os_sep = "/" THEN {"/"} ELSE {"/", "\\"}
        IsPart(c) == c \notin seps /\ c # "."
    IN  Path(s # <<>> /\ Head(s) \in seps, SelectSeq(s, IsPart))

\* A title that keeps only what follows the last "::".
parse_test_title_rsplit(nodeid) ==
    LET at == { k \in 1..(Len(nodeid) - 1) :
                  nodeid[k] = ":" /\ nodeid[k + 1] = ":" }
    IN  IF at = {} THEN nodeid
        ELSE LET k == CHOOSE k \in at : \A j \in at : j <= k
             IN  SubSeq(nodeid, k + 2, Len(nodeid))

\* Reporter.parse_test_title: nodeid.split("::", 1)
RECURSIVE parse_test_title_from(_, _)
parse_test_title_from(nodeid, k) ==
    IF k >= Len(nodeid) THEN nodeid
    ELSE IF nodeid[k] = ":" /\ nodeid[k + 1] = ":"
    THEN SubSeq(nodeid, k + 2, Len(nodeid))
    ELSE parse_test_title_from(nodeid, k + 1)
parse_test_title(nodeid) == parse_test_title_from(nodeid, 1)

\* A pytest.Mark: its name and positional arguments.
Mark(name, args) == [name |-> name, args |-> args]

\* The collected test items: node id, markers as item.iter_markers() yields
\* them, and the (file, zero-based line) of report.location.
Items == {
    [fspath |-> Path(FALSE, <<"t.py">>),
     nodeid |-> <<"t", ":", ":", "a">>, lineno |-> Some(0),
     markers |-> <<Mark("smoke", <<>>), Mark("foo", <<>>)>>],
    [fspath |-> Path(FALSE, <<"sub", "t.py">>),
     nodeid |-> <<"t", ":", ":", "b", "[", "1", "]">>, lineno |-> None,
     markers |-> <<Mark("owner", <<"johndoe">>),
                   Mark("parametrize", <<"n", "values">>)>>],
    [fspath |-> Path(FALSE, <<"sub", "t.py">>),
     nodeid |-> <<"t", ":", ":", "b", "[", "2", "]">>, lineno |-> None,
     markers |-> <<Mark("owner", <<"johndoe">>),
                   Mark("parametrize", <<"n", "values">>)>>],
    [fspath |-> Path(FALSE, <<"t.py">>),
     nodeid |-> <<"t", ":", ":", "s">>, lineno |-> Some(7),
     markers |-> <<Mark("skip", <<>>)>>],
    [fspath |-> Path(TRUE, <<"ext", "t.py">>),
     nodeid |-> <<"t", ":", ":", "K", ":", ":", "x">>, lineno |-> Some(2),
     markers |-> <<Mark("xfail", <<>>)>>] }

HasMarker(item, name) ==
    \E k \in 1..Len(item.markers) : item.markers[k].name = name

\* report.longrepr: None, a str, an ExceptionRepr with reprcrash and
\* reprtraceback, or the (path, lineno, reason) tuple of a skip.
LongRepr(kind, item, reason) ==
    [kind |-> kind, reason |-> reason, crash_path |-> item.fspath,
     crash_lineno |-> item.lineno]

\* A TestReport as the runner hands it to the hooks.
TestReport(item, when, outcome, wasxfail, kind, reason, duration) ==
    [nodeid |-> item.nodeid, when |-> when, outcome |-> outcome,
     wasxfail |-> wasxfail, duration |-> duration,
     location |-> <<item.fspath, item.lineno>>,
     longrepr |-> LongRepr(kind, item, reason)]

Durations == {0, 2}

\* The reports pytest makes for an item.  A skip marker ends the item in its
\* setup phase, with outcome "skipped" and no call phase.  An xfail marker
\* turns a failing call into outcome "skipped" with wasxfail set, a passing
\* call into "passed" with wasxfail set, or (strict) into "failed" with a str
\* longrepr.  pytest.skip() and pytest.xfail() in the test body give
\* "skipped", the latter with wasxfail set.
RunnerReports(item) ==
    LET R(when, outcome, wasxfail, kind, reason) ==
            { TestReport(item, when, outcome, wasxfail, kind, reason, d) :
                d \in Durations }
    IN  IF HasMarker(item, "skip")
        THEN R("setup", "skipped", FALSE, "tuple", <<"Skipped: ", "unconditional skip">>)
             \cup R("teardown", "passed", FALSE, "None", <<>>)
        ELSE R("setup", "passed", FALSE, "None", <<>>)
             \cup R("setup", "failed", FALSE, "repr", <<>>)
             \cup R("teardown", "passed", FALSE, "None", <<>>)
             \cup R("teardown", "failed", FALSE, "repr", <<>>)
             \cup R("call", "skipped", TRUE, "repr", <<>>)
             \cup R("call", "passed", HasMarker(item, "xfail"), "None", <<>>)
             \cup IF HasMarker(item, "xfail")
                  THEN R("call", "failed", FALSE, "str", <<>>)
                  ELSE R("call", "failed", FALSE, "repr", <<>>)
                       \cup R("call", "skipped", FALSE, "tuple",
                              <<"Skipped: ", "dynamic">>)

\* IGNORED_MARKERS
IGNORED_MARKERS == {"parametrize", "usefixtures", "filterwarnings", "skip",
                    "xfail"}

\* The loop of pytest_runtest_makereport over item.iter_markers()
RECURSIVE injected_tags(_)
injected_tags(markers) ==
    IF markers = <<>> THEN <<>>
    ELSE LET m == Head(markers) IN
         (IF m.name \notin IGNORED_MARKERS /\ m.args = <<>>
          THEN <<m.name>> ELSE <<>>) \o injected_tags(Tail(markers))

RECURSIVE injected_annotations(_)
injected_annotations(markers) ==
    IF markers = <<>> THEN <<>>
    ELSE LET m == Head(markers) IN
         (IF m.name \notin IGNORED_MARKERS /\ m.args # <<>>
          THEN <<[type |-> m.name, description |-> m.args[1]]>> ELSE <<>>)
         \o injected_annotations(Tail(markers))

injected_markers(markers) == [k \in 1..Len(markers) |-> markers[k].name]

\* The filter of pytest_runtest_logreport: what is not recorded.
\* A filter that lets the failure of any phase through.
Discarded_unless_failed(report) ==
    report.when # "call" /\ ~(report.outcome = "failed")

Discarded(report) ==
    report.when # "call" /\ ~(report.when = "setup" /\ report.outcome = "failed")

\* An expectation that looks at the outcome alone.
expected_status_no_xfail(report) ==
    IF report.outcome = "skipped" THEN "skipped" ELSE "passed"

\* An expectation that looks at the xfail mark alone.
expected_status_no_skip(report) ==
    IF report.wasxfail THEN "failed" ELSE "passed"

\* Determine expectation (xfail handling): "passed", then "failed" if the
\* report has a wasxfail attribute, then "skipped" if the outcome is.
expected_status(report) ==
    LET default == "passed"
        xfailed == IF report.wasxfail THEN "failed" ELSE default
    IN  IF report.outcome = "skipped" THEN "skipped" ELSE xfailed

\* A location built without looking at what normalize_path returned.
location_of_unchecked(report) ==
    LET fspath == normalize_path(report.location[1])
        lineno == report.location[2]
    IN  IF lineno # None
        THEN Some([file |-> str_optional(fspath), line |-> lineno[1] + 1,
                   column |-> 1])
        ELSE None

\* Location parsing of pytest_runtest_logreport
location_of(report) ==
    LET fspath == normalize_path(report.location[1])
        lineno == report.location[2]
    IN  IF fspath # None /\ lineno # None
        THEN Some([file |-> fspath[1], line |-> lineno[1] + 1, column |-> 1])
        ELSE None

\* Reporter.parse_pytest_error
parse_pytest_error(report) ==
    LET longrepr == report.longrepr IN
    IF longrepr.kind = "None" THEN None
    ELSE IF longrepr.kind = "str"
    THEN Some([location |-> None, message |-> "longrepr", stack |-> None,
               snippet |-> None])
    ELSE IF longrepr.kind = "repr"
    THEN Some([location |-> Some(
                   [file |-> str_optional(normalize_path(longrepr.crash_path)),
                    line |-> (IF longrepr.crash_lineno = None THEN 0
                              ELSE longrepr.crash_lineno[1]) + 1,
                    column |-> 0]),
               message |-> "crash.message",
               stack |-> Some("str(longrepr)"),
               snippet |-> Some("last_entry.lines")])
    ELSE Some([location |-> None, message |-> "str(longrepr)",
               stack |-> Some("str(longrepr)"), snippet |-> None])

\* An Attempt that takes the Error of any event that has a longrepr.
RunAttempt_errors_any(report, time) ==
    LET duration_ms == report.duration
        error == parse_pytest_error(report)
    IN  [status |-> report.outcome,
         duration |-> duration_ms,
         environmentIdx |-> 0,
         expectedStatus |-> expected_status(report),
         startTimestamp |-> time - duration_ms,
         errors |-> IF error # None THEN error ELSE <<>>]

\* An Attempt that starts at the time of the hook call.
RunAttempt_started_now(report, time) ==
    LET duration_ms == report.duration
        error == parse_pytest_error(report)
    IN  [status |-> report.outcome,
         duration |-> duration_ms,
         environmentIdx |-> 0,
         expectedStatus |-> expected_status(report),
         startTimestamp |-> time,
         errors |-> IF report.outcome = "failed" /\ error # None
                    THEN error ELSE <<>>]

\* 2. Build Attempt
RunAttempt(report, time) ==
    LET duration_ms == report.duration
        error == parse_pytest_error(report)
    IN  [status |-> report.outcome,
         duration |-> duration_ms,
         environmentIdx |-> 0,
         expectedStatus |-> expected_status(report),
         startTimestamp |-> time - duration_ms,
         errors |-> IF report.outcome = "failed" /\ error # None
                    THEN error ELSE <<>>]

\* A lookup that never finds the key.
Position_unseen(nodeid) == 0

\* self.tests is a dict in insertion order: a sequence of entries, each its
\* key (nodeid) and the FKTest value.
Position(nodeid) ==
    IF \E k \in 1..Len(tests) : tests[k].nodeid = nodeid
    THEN CHOOSE k \in 1..Len(tests) : tests[k].nodeid = nodeid
    ELSE 0

\* Reporter.__init__ at pytest_sessionstart: no event yet, nothing written.
RunStart ==
    /\ now = Epoch
    /\ start_time = Epoch
    /\ tests = <<>>
    /\ pending = None
    /\ n_reports = 0
    /\ payload = None
    /\ report_file = None
    /\ report_json = None
    /\ s_propagated = FALSE

ReporterInit ==
    /\ os_sep \in {"/", "\\"}
    /\ git_root = <<"repo">>
    /\ pytest_root \in {<<"repo">>, <<"repo", "sub">>}
    /\ RunStart
    /\ flakiness_output_dir = None

\* pytest_addoption declares --flakiness-output-dir, default None; the test
\* suite runs pytest with --flakiness-output-dir=my_flake_report.
OutputDirs == {None, Some(<<"my_flake_report">>)}

\* pytest_sessionstart under either setting of the option, in a repository
\* whose root is the root directory of pytest.
SessionInit ==
    /\ os_sep = "/"
    /\ git_root = <<"repo">>
    /\ pytest_root = <<"repo">>
    /\ RunStart
    /\ flakiness_output_dir \in OutputDirs

\* plugin.pytest_runtest_makereport(item, call): the runner ran one phase of
\* the item, which took report.duration, and made its report; the hook adds
\* the tags, annotations and marker names of the item to it.
pytest_runtest_makereport(item, report) ==
    /\ pending = None
    /\ n_reports < MaxReports
    /\ n_reports' = n_reports + 1
    /\ now' = now + report.duration
    /\ pending' = Some([report |-> report,
                        flakiness_injected_tags |-> injected_tags(item.markers),
                        flakiness_injected_annotations |->
                            injected_annotations(item.markers),
                        flakiness_injected_markers |->
                            injected_markers(item.markers)])
    /\ UNCHANGED <<os_sep, git_root, pytest_root, start_time, tests, payload,
                   flakiness_output_dir, report_file, report_json,
                   s_propagated, uvars, fvars, ovars>>

\* A hook that, once the report file exists, writes it again on every event.
pytest_runtest_logreport_flush ==
    /\ pending # None
    /\ pending' = None
    /\ LET report == pending[1].report
           attempt == RunAttempt(report, now)
           k == Position(report.nodeid)
       IN  IF Discarded(report)
           THEN tests' = tests
           ELSE IF k = 0
           THEN tests' = Append(tests,
                    [nodeid |-> report.nodeid,
                     location |-> location_of(report),
                     title |-> parse_test_title(report.nodeid),
                     attempts |-> <<attempt>>,
                     tags |-> <<>>])
           ELSE tests' = [tests EXCEPT ![k].attempts = Append(@, attempt)]
    /\ report_json' = IF report_json = None THEN None
                      ELSE Some([report_json[1] EXCEPT !.tests = tests'])
    /\ UNCHANGED <<os_sep, git_root, pytest_root, now, start_time, n_reports,
                   payload, flakiness_output_dir, report_file, s_propagated,
                   uvars, fvars, ovars>>

\* A hook that puts the Attempt of a later event in front of the earlier ones.
pytest_runtest_logreport_prepend ==
    /\ pending # None
    /\ pending' = None
    /\ LET report == pending[1].report
           attempt == RunAttempt(report, now)
           k == Position(report.nodeid)
       IN  IF Discarded(report)
           THEN tests' = tests
           ELSE IF k = 0
           THEN tests' = Append(tests,
                    [nodeid |-> report.nodeid,
                     location |-> location_of(report),
                     title |-> parse_test_title(report.nodeid),
                     attempts |-> <<attempt>>,
                     tags |-> <<>>])
           ELSE tests' = [tests EXCEPT ![k].attempts = <<attempt>> \o @]
    /\ UNCHANGED <<os_sep, git_root, pytest_root, now, start_time, n_reports,
                   payload, flakiness_output_dir, report_file, report_json,
                   s_propagated, uvars, fvars, ovars>>

\* Reporter.pytest_runtest_logreport(report)
pytest_runtest_logreport ==
    /\ pending # None
    /\ pending' = None
    /\ LET report == pending[1].report
           attempt == RunAttempt(report, now)
           k == Position(report.nodeid)
       IN  IF Discarded(report)
           THEN tests' = tests
           ELSE IF k = 0
           THEN tests' = Append(tests,
                    [nodeid |-> report.nodeid,
                     location |-> location_of(report),
                     title |-> parse_test_title(report.nodeid),
                     attempts |-> <<attempt>>,
                     tags |-> <<>>])
           ELSE tests' = [tests EXCEPT ![k].attempts = Append(@, attempt)]
    /\ UNCHANGED <<os_sep, git_root, pytest_root, now, start_time, n_reports,
                   payload, flakiness_output_dir, report_file, report_json,
                   s_propagated, uvars, fvars, ovars>>

\* json.dump(report_payload, f, ...): the document written holds the Test
\* Records as they are at the time of the call.
json_dump(report_payload) == [report_payload EXCEPT !.tests = tests]

\* output_dir = Path.cwd() / "flakiness-report", relative to the working
\* directory.
output_dir == <<"flakiness-report">>

\* Reporter.pytest_sessionfinish: "tests": list(self.tests.values()) holds
\* the values of self.tests themselves, named here by their keys.  mkdir is
\* outside the try block; a failure of open or json.dump is caught.
pytest_sessionfinish(mkdir_ok, write_ok) ==
    /\ pending = None
    /\ payload = None
    /\ payload' = Some([tests |-> [k \in 1..Len(tests) |-> tests[k].nodeid],
                        duration |-> now - start_time,
                        startTimestamp |-> start_time,
                        category |-> "pytest",
                        environments |-> <<"pytest-host">>,
                        suites |-> <<>>])
    /\ s_propagated' = ~mkdir_ok
    /\ report_file' = IF mkdir_ok /\ write_ok
                      THEN Some(output_dir \o <<"report.json">>) ELSE None
    /\ report_json' = IF mkdir_ok /\ write_ok
                      THEN Some(json_dump(payload'[1])) ELSE None
    /\ UNCHANGED <<os_sep, git_root, pytest_root, now, start_time, tests,
                   pending, n_reports, flakiness_output_dir, uvars,
                   fvars, ovars>>

Reporter ==
    \/ \E item \in Items : \E report \in RunnerReports(item) :
          pytest_runtest_makereport(item, report)
    \/ pytest_runtest_logreport
    \/ \E mkdir_ok \in BOOLEAN, write_ok \in BOOLEAN :
          pytest_sessionfinish(mkdir_ok, write_ok)

(***************************************************************************)
(* github_oidc.py                                                          *)
(***************************************************************************)

\* Retry(total=3, ...)
OidcRetryTotal == 3

\* A URL: its text being empty or not, its scheme, and the values its query
\* string gives to the audience parameter.
Url(text, scheme, query) == [text |-> text, scheme |-> scheme, query |-> query]
EmptyUrl == Url("", "", <<>>)
RequestUrls == {EmptyUrl}
               \cup { Url("url", sch, q) : sch \in {"http", "https"},
                                           q \in {<<>>, <<"stale">>} }

\* os.environ.get(name): None when the variable is not set.
EnvUrls == {None} \cup { Some(u) : u \in RequestUrls }
EnvTokens == {None, Some(""), Some("test-request-token")}
Environ(url, token) ==
    [ACTIONS_ID_TOKEN_REQUEST_URL |-> url,
     ACTIONS_ID_TOKEN_REQUEST_TOKEN |-> token]
NoEnviron == Environ(None, None)

Audiences == {"myorg/myproject", "other"}

\* A test that takes every value that is not None.
Available_not_none(request_url, request_token) ==
    request_url # None /\ request_token # None

\* if request_url and request_token: a value is true when it is neither
\* None nor the empty string.
Available(request_url, request_token) ==
    /\ request_url # None /\ request_url[1].text # ""
    /\ request_token # None /\ request_token[1] # ""

\* qs["audience"] = [audience]; urlunparse(parsed._replace(query=new_query))
WithAudience(url, aud) == [url EXCEPT !.query = <<aud>>]

\* session.mount("https://", HTTPAdapter(max_retries=retries))
oidc_max_retries(url) == IF url.scheme = "https" THEN OidcRetryTotal ELSE 0

\* A response taken as a success whatever its status.
response_ok_any(r) == TRUE

\* Response.ok: True unless raise_for_status() would raise.
response_ok(r) == ~raise_for_status(r)

\* response.json() and data.get("value"): the body is not JSON, a JSON
\* object without "value", with an empty one, or with a token.
TokenBodies == {"not_json", "no_value", "empty_value", "token"}
TokenValue(body) == IF body = "token" THEN Some("oidc-jwt-token")
                    ELSE IF body = "empty_value" THEN Some("")
                    ELSE None

\* An exception leaving fetch_token: its type, and the HTTP status its
\* message names (0 when it names none).
OidcError(type, status_code) == [type |-> type, status_code |-> status_code]

OidcInit ==
    /\ environ \in { Environ(u, t) : u \in EnvUrls, t \in EnvTokens }
    /\ audience \in Audiences
    /\ oidc = None
    /\ o_pc = "env"
    /\ o_tries = 0
    /\ o_sent = <<>>
    /\ o_response = None
    /\ o_token = None
    /\ o_exc = None

\* GithubOIDC.init_from_env()
init_from_env ==
    /\ o_pc = "env"
    /\ LET request_url == environ.ACTIONS_ID_TOKEN_REQUEST_URL
           request_token == environ.ACTIONS_ID_TOKEN_REQUEST_TOKEN
       IN  IF Available(request_url, request_token)
           THEN /\ oidc' = Some([_request_url |-> request_url[1],
                                 _request_token |-> request_token[1]])
                /\ o_pc' = "available"
           ELSE /\ oidc' = None
                /\ o_pc' = "unavailable"
    /\ UNCHANGED <<environ, audience, o_tries, o_sent, o_response, o_token,
                   o_exc, uvars, rvars, fvars>>

\* oidc.fetch_token(audience): one exchange of session.get, then, unless
\* urllib3 sends the request again, the rest of the method.
fetch_token(r, body) ==
    /\ o_pc = "available"
    /\ LET url == WithAudience(oidc[1]._request_url, audience)
           get == [url |-> url, Authorization |-> oidc[1]._request_token]
           token == TokenValue(body)
           raise(type, status_code) ==
               /\ o_exc' = Some(OidcError(type, status_code))
               /\ o_pc' = "raised"
               /\ UNCHANGED <<o_tries, o_token>>
       IN  /\ o_sent' = Append(o_sent, get)
           /\ IF Retryable(r) /\ o_tries < oidc_max_retries(url)
              THEN /\ o_tries' = o_tries + 1
                   /\ UNCHANGED <<o_pc, o_response, o_token, o_exc>>
              ELSE IF r = NoResponse
              THEN raise("ConnectionError", 0) /\ o_response' = None
              ELSE IF Retryable(r) /\ url.scheme = "https"
              THEN raise("RetryError", r) /\ o_response' = None
              ELSE /\ o_response' = Some([body |-> body, status_code |-> r])
                   /\ IF ~response_ok(r)
                      THEN raise("RuntimeError", r)
                      ELSE IF body = "not_json"
                      THEN raise("JSONDecodeError", 0)
                      ELSE IF token = None \/ token[1] = ""
                      THEN raise("RuntimeError", 0)
                      ELSE /\ o_token' = token
                           /\ o_pc' = "returned"
                           /\ UNCHANGED <<o_tries, o_exc>>
    /\ UNCHANGED <<environ, oidc, audience, uvars, rvars, fvars>>

GithubOIDC ==
    \/ init_from_env
    \/ \E r \in Responses, body \in TokenBodies : fetch_token(r, body)

(***************************************************************************)
(* Calls of Reporter.normalize_path and Reporter.parse_test_title.         *)
(***************************************************************************)

\* The arguments: paths of up to MaxPathLen components, absolute or not, and
\* node ids of up to MaxIdLen characters.
PathNames == {"repo", "sub", "t.py", ".."}
Paths == { Path(a, parts) :
             a \in BOOLEAN,
             parts \in UNION { [1..n -> PathNames] : n \in 0..MaxPathLen } }
NodeChars == {"t", ":", "[1]"}
NodeIds == UNION { [1..n -> NodeChars] : n \in 0..MaxIdLen }

FunctionsInit ==
    /\ normalized = <<>>
    /\ parsed_title = None
    /\ \/ /\ arg_fspath \in { Some(f) : f \in Paths }
          /\ arg_nodeid = None
          /\ os_sep \in {"/", "\\"}
          /\ git_root \in GitRoots
          /\ pytest_root \in PytestRoots
       \/ /\ arg_fspath = None
          /\ arg_nodeid \in { Some(n) : n \in NodeIds }
          /\ os_sep = "/"
          /\ git_root = <<"repo">>
          /\ pytest_root = <<"repo">>

\* reporter.normalize_path(fspath)
Call_normalize_path ==
    /\ arg_fspath # None
    /\ normalized = <<>>
    /\ normalized' = <<normalize_path(arg_fspath[1])>>
    /\ UNCHANGED <<arg_fspath, arg_nodeid, parsed_title, uvars, rvars, ovars>>

\* reporter.normalize_path(result), result being what the last call returned
Call_normalize_path_again ==
    /\ Len(normalized) = 1
    /\ normalized[1] # None
    /\ normalized' = Append(normalized, normalize_path(PathOf(normalized[1][1])))
    /\ UNCHANGED <<arg_fspath, arg_nodeid, parsed_title, uvars, rvars, ovars>>

\* reporter.parse_test_title(nodeid)
Call_parse_test_title ==
    /\ arg_nodeid # None
    /\ parsed_title = None
    /\ parsed_title' = Some(parse_test_title(arg_nodeid[1]))
    /\ UNCHANGED <<arg_fspath, normalized, arg_nodeid, uvars, rvars, ovars>>

Functions ==
    \/ Call_normalize_path
    \/ Call_normalize_path_again
    \/ Call_parse_test_title

(***************************************************************************)
(* Specifications.                                                         *)
(***************************************************************************)

\* No upload in progress.
UploadIdle ==
    /\ attachments = <<>>
    /\ files = <<>>
    /\ path_type = "str"
    /\ report_dumps = TRUE
    /\ https = TRUE
    /\ u_pc = "start"
    /\ tries = 0
    /\ upload_data = NoData
    /\ att_idx = 1
    /\ requests = <<>>
    /\ response = None
    /\ u_exc = NoExc
    /\ u_outcome = "none"
    /\ u_propagated = FALSE
    /\ full_url = <<>>

\* No event delivered to the Reporter.
RunIdle ==
    /\ now = Epoch
    /\ start_time = Epoch
    /\ tests = <<>>
    /\ pending = None
    /\ n_reports = 0
    /\ payload = None
    /\ flakiness_output_dir = None
    /\ report_file = None
    /\ report_json = None
    /\ s_propagated = FALSE

\* No run in progress.
ReporterIdle ==
    /\ os_sep = "/"
    /\ git_root = <<"repo">>
    /\ pytest_root = <<"repo">>
    /\ RunIdle

\* No method of the Reporter called on its own.
FunctionsIdle ==
    /\ arg_fspath = None
    /\ normalized = <<>>
    /\ arg_nodeid = None
    /\ parsed_title = None

\* No credential resolver created.
OidcIdle ==
    /\ environ = NoEnviron
    /\ oidc = None
    /\ audience = "myorg/myproject"
    /\ o_pc = "env"
    /\ o_tries = 0
    /\ o_sent = <<>>
    /\ o_response = None
    /\ o_token = None
    /\ o_exc = None

InitUpload == UploadInit /\ ReporterIdle /\ FunctionsIdle /\ OidcIdle
InitReporter == ReporterInit /\ UploadIdle /\ FunctionsIdle /\ OidcIdle
InitSession == SessionInit /\ UploadIdle /\ FunctionsIdle /\ OidcIdle
InitFunctions == FunctionsInit /\ RunIdle /\ UploadIdle /\ OidcIdle
InitOidc == OidcInit /\ UploadIdle /\ ReporterIdle /\ FunctionsIdle

SpecUpload == InitUpload /\ [][upload_report]_vars
\* upload_report runs on one thread from its first statement to its return:
\* as long as a statement is left to execute it is executed, given that the
\* request in flight ends (timeout=10 on the start and complete calls).
SpecUploadFair ==
    InitUpload /\ [][upload_report]_vars /\ WF_vars(upload_report)
SpecReporter == InitReporter /\ [][Reporter]_vars
SpecSession == InitSession /\ [][Reporter]_vars
SpecFunctions == InitFunctions /\ [][Functions]_vars
SpecOidc == InitOidc /\ [][GithubOIDC]_vars

(***************************************************************************)
(* Claims about upload_report, checked under SpecUpload.                   *)
(***************************************************************************)

Rank(req) ==
    CASE req = "startUpload" -> 1
      [] req = "report" -> 2
      [] req = "attachment" -> 3
      [] req = "completeUpload" -> 4

Issued(req) == \E k \in 1..Len(requests) : requests[k].req = req

\* Attachment i was PUT (the exchange is over), or the loop skipped it.
PutDone(i) ==
    \E k \in 1..Len(requests) :
        /\ requests[k].req = "attachment"
        /\ requests[k].att = i
        /\ requests[k].status # "pending"
Skipped(i) ==
    \/ attachments[i].id \notin upload_data.attachment_upload_urls
    \/ files[attachments[i].path] = "missing"

\* C1: the requests are issued in the order startUpload POST, report PUT,
\* attachment PUTs, completeUpload POST; the report PUT is issued only after
\* a successful startUpload response, a failed start issues no later
\* request, and completeUpload is issued only after every attachment was
\* either PUT or skipped.
C1_StrictOrder ==
    /\ \A j \in 1..Len(requests), k \in 1..Len(requests) :
          j < k => /\ Rank(requests[j].req) <= Rank(requests[k].req)
                   /\ requests[j].status # "pending"
                   /\ Rank(requests[j].req) = Rank(requests[k].req)
                        => requests[j].req = "attachment"
    /\ Len(requests) > 0 => requests[1].req = "startUpload"
    /\ Len(requests) > 1 => requests[1].status = "ok" /\ upload_data.json
    /\ Issued("completeUpload") =>
          /\ Issued("report")
          /\ \A i \in 1..Len(attachments) : PutDone(i) \/ Skipped(i)

\* C1 witness: an upload that ran all four phases, with one attachment PUT
\* and another one skipped.
C1_Witness ==
    /\ u_outcome = "uploaded"
    /\ \E i \in 1..Len(attachments) : PutDone(i)
    /\ \E i \in 1..Len(attachments) : Skipped(i) /\ ~PutDone(i)

\* A phase failed: an exception was raised in the try block, or an exchange
\* ended with an HTTP error status.
FailureOccurred ==
    \/ u_exc # NoExc
    \/ \E k \in 1..Len(requests) : requests[k].status = "http_error"

\* C2: whatever fails in any of the four phases, upload_report returns
\* normally (no exception reaches the caller) and the outcome is "upload
\* failed".
C2_FailureIsUploadFailed ==
    /\ ~u_propagated
    /\ (u_pc = "done" /\ FailureOccurred) => u_outcome = "failed"

\* Nothing went wrong but, possibly, attachment files being missing: every
\* exchange ended with a success status, the server's bodies were complete,
\* the report serialized and no file was unreadable.
NothingElseFailed ==
    /\ report_dumps
    /\ \A k \in 1..Len(requests) : requests[k].status = "ok"
    /\ u_exc.kind \notin {"transport", "http_status", "malformed_body",
                          "incomplete_body", "file_error"}

\* C3: an attachment whose local file does not exist is not PUT, the other
\* attachments are still processed, completeUpload is still issued and no
\* exception propagates.
C3_MissingFileDoesNotAbort ==
    (/\ u_pc = "done"
     /\ NothingElseFailed
     /\ \E i \in 1..Len(attachments) : files[i] = "missing")
    => /\ Issued("completeUpload")
       /\ ~u_propagated
       /\ \A i \in 1..Len(attachments) :
             IF files[attachments[i].path] = "missing"
             THEN ~PutDone(i)
             ELSE PutDone(i) \/ Skipped(i)

\* C4: a report PUT that ends with a non-success HTTP response makes the
\* upload fail: completeUpload is not issued and the run is not reported as
\* uploaded.
C4_ReportPutErrorFails ==
    (\E k \in 1..Len(requests) :
        requests[k].req = "report" /\ requests[k].status = "http_error")
    => ~Issued("completeUpload") /\ u_outcome # "uploaded"

\* C5: the attachmentIds list of the startUpload body holds exactly the
\* identifier of each attachment, in order, and nothing else of it.
C5_StartBodyIsIds ==
    \A k \in 1..Len(requests) :
        requests[k].req = "startUpload" =>
            /\ Len(requests[k].body) = Len(attachments)
            /\ \A i \in 1..Len(attachments) :
                  /\ requests[k].body[i].type = "string"
                  /\ requests[k].body[i].keys = {}
                  /\ requests[k].body[i].value = attachments[i].id

\* An HTTP exchange took place in this step: a request was sent, or sent
\* again, and ended in a response or in none.
Exchanged == requests' # requests \/ tries' # tries

\* The request in flight is sent again.
Retried == tries' = tries + 1 /\ u_pc' = u_pc /\ Len(requests') >= 1
           /\ requests'[Len(requests')].status = "pending"

\* C18 (upload protocol): a request of the upload protocol that receives a
\* 500, 502, 503 or 504 response is sent again as long as fewer than 5
\* retries were spent on it, and makes the call fail once they are spent; a
\* request that receives a 4xx response is not sent again.
C18_RetryOn5xx ==
    [][(Exchanged /\ response' # None) =>
         /\ response'[1] \in status_forcelist =>
               IF tries < RetryTotal
               THEN Retried
               ELSE u_pc' = "done" /\ u_outcome' = "failed"
         /\ (response'[1] >= 400 /\ response'[1] <= 499) => ~Retried]_vars

\* C29: every call of upload_report ends, in "report uploaded" or in
\* "upload failed", and no request is sent again more often than the retry
\* total allows on the way, whatever the number of attachments.
C29_Terminates ==
    /\ [](tries <= RetryTotal)
    /\ <>(u_pc = "done" /\ u_outcome \in {"uploaded", "failed"})

\* C29 witness: with every attachment there to upload, the retries of an
\* attachment PUT were spent and the call ended in "upload failed".
C29_Witness ==
    /\ u_pc = "done"
    /\ u_outcome = "failed"
    /\ Len(attachments) = MaxAttachments
    /\ https
    /\ u_exc = [phase |-> "attachment", kind |-> "transport"]
    /\ response = Some(503)

(***************************************************************************)
(* Claims about the Reporter, checked under SpecReporter.                  *)
(***************************************************************************)

ItemOf(nodeid) == CHOOSE item \in Items : item.nodeid = nodeid
Range(seq) == { seq[k] : k \in 1..Len(seq) }
LastAttempt(ts, nodeid) ==
    LET k == CHOOSE k \in 1..Len(ts) : ts[k].nodeid = nodeid
    IN  ts[k].attempts[Len(ts[k].attempts)]
Recorded(ts, nodeid) == \E k \in 1..Len(ts) : ts[k].nodeid = nodeid

\* pytest_runtest_logreport takes the report the runner made.
Logs(report) == pending = Some(report) /\ pending' = None

C7_XfailExpectsFailed ==
    [][\A p \in Range(pending) :
          (/\ Logs(p)
           /\ "xfail" \in Range(p.flakiness_injected_markers)
           /\ p.report.when = "call"
           /\ p.report.wasxfail
           /\ p.report.outcome = "skipped")
          => /\ Recorded(tests', p.report.nodeid)
             /\ LastAttempt(tests', p.report.nodeid).status = "skipped"
             /\ LastAttempt(tests', p.report.nodeid).expectedStatus = "failed"
      ]_vars

\* C8: a test skipped by a skip marker, of which the runner reports a skipped
\* setup phase and no call phase, has a Test Record with exactly one Attempt,
\* of status "skipped".
C8_StaticSkipRecorded ==
    [][\A p \in Range(pending) :
          (/\ Logs(p)
           /\ "skip" \in Range(p.flakiness_injected_markers)
           /\ p.report.when = "setup"
           /\ p.report.outcome = "skipped"
           /\ ~Recorded(tests, p.report.nodeid))
          => \E k \in 1..Len(tests') :
                /\ tests'[k].nodeid = p.report.nodeid
                /\ Len(tests'[k].attempts) = 1
                /\ tests'[k].attempts[1].status = "skipped"
      ]_vars

\* C9: every skipped Attempt carries exactly one Annotation, of type "skip",
\* described "Skipped: <reason>" or "Skipped: unconditional skip".
C9_SkipAnnotation ==
    [][\A p \in Range(pending) :
          (/\ Logs(p)
           /\ p.report.outcome = "skipped"
           /\ ~p.report.wasxfail
           /\ Recorded(tests', p.report.nodeid)
           /\ tests' # tests)
          => LET a == LastAttempt(tests', p.report.nodeid) IN
             /\ "annotations" \in DOMAIN a
             /\ Len(a.annotations) = 1
             /\ a.annotations[1].type = "skip"
             /\ a.annotations[1].description = p.report.longrepr.reason
      ]_vars

\* The partition of the markers as the claim states it.
ExclusionSet == {"parametrize", "usefixtures", "filterwarnings", "skip",
                 "xfail"}
TagsOf(item) ==
    { item.markers[k].name : k \in
        { k \in 1..Len(item.markers) :
            /\ item.markers[k].name \notin ExclusionSet
            /\ item.markers[k].args = <<>> } }
AnnotationsOf(item) ==
    { [type |-> item.markers[k].name, description |-> item.markers[k].args[1]] :
        k \in { k \in 1..Len(item.markers) :
                  /\ item.markers[k].name \notin ExclusionSet
                  /\ item.markers[k].args # <<>> } }

\* C10: in the report, the tags of a Test Record are the bare markers of the
\* test outside the exclusion set, the markers with an argument are
\* Annotations of its Attempts, and excluded markers are neither.
C10_MarkersPartitioned ==
    \A k \in 1..Len(tests) :
        LET item == ItemOf(tests[k].nodeid) IN
        /\ Range(tests[k].tags) = TagsOf(item)
        /\ \A j \in 1..Len(tests[k].attempts) :
              LET a == tests[k].attempts[j] IN
              /\ "annotations" \in DOMAIN a
              /\ AnnotationsOf(item) \subseteq Range(a.annotations)
              /\ \A x \in Range(a.annotations) :
                    x.type \notin ExclusionSet \ {"skip", "xfail"}

\* The test identifiers of the Test Records, in the order of the mapping.
Keys(ts) == [k \in 1..Len(ts) |-> ts[k].nodeid]

\* C11: the tests mapping holds exactly one Test Record per distinct test
\* identifier among the recorded events, in first-seen order: a recorded
\* event of an unseen identifier adds one record at the end, a recorded
\* event of a seen identifier adds none, a discarded event changes nothing,
\* and no identifier has two records (each parametrized variant being an
\* identifier of its own).
C11_OneRecordPerTestId ==
    [][\A p \in Range(pending) :
          Logs(p) =>
            /\ Keys(tests') =
                  IF Discarded(p.report) \/ Recorded(tests, p.report.nodeid)
                  THEN Keys(tests)
                  ELSE Append(Keys(tests), p.report.nodeid)
            /\ \A j \in 1..Len(tests'), k \in 1..Len(tests') :
                  tests'[j].nodeid = tests'[k].nodeid => j = k
            /\ ~Discarded(p.report) => Recorded(tests', p.report.nodeid)]_vars

\* C11 witness: the two variants of one parametrized function were recorded
\* and are two records, in the order they were seen.
C11_Witness ==
    /\ Len(tests) = 2
    /\ tests[1].nodeid = <<"t", ":", ":", "b", "[", "2", "]">>
    /\ tests[2].nodeid = <<"t", ":", ":", "b", "[", "1", "]">>
    /\ n_reports = 2

\* The path, anchored under the run root when it is relative, resolves to
\* a place that is not under the repository root.
Outside(fspath) ==
    LET full_path == resolve(<<>>, IF fspath.absolute THEN fspath.parts
                                   ELSE pytest_root \o fspath.parts)
    IN  \/ Len(full_path) < Len(git_root)
        \/ \E k \in 1..Len(git_root) : full_path[k] # git_root[k]

AttemptsOf(ts, nodeid) ==
    IF Recorded(ts, nodeid)
    THEN ts[CHOOSE k \in 1..Len(ts) : ts[k].nodeid = nodeid].attempts
    ELSE <<>>
LocationOf(ts, nodeid) ==
    ts[CHOOSE k \in 1..Len(ts) : ts[k].nodeid = nodeid].location

\* C15: when the file of a test resolves outside the repository root,
\* normalize_path returns None, and the event is recorded all the same: its
\* Attempt is appended, and the Test Record it creates has no location.
C15_OutsideStillRecorded ==
    [][\A p \in Range(pending) :
          (/\ Logs(p)
           /\ ~Discarded(p.report)
           /\ Outside(p.report.location[1]))
          => /\ normalize_path(p.report.location[1]) = None
             /\ Recorded(tests', p.report.nodeid)
             /\ Len(AttemptsOf(tests', p.report.nodeid))
                  = Len(AttemptsOf(tests, p.report.nodeid)) + 1
             /\ ~Recorded(tests, p.report.nodeid)
                  => LocationOf(tests', p.report.nodeid) = None]_vars

\* C15 witness: a test whose file is outside the repository root, and whose
\* line number is known, has a Test Record without location and an Attempt.
C15_Witness ==
    \E k \in 1..Len(tests) :
        /\ Outside(ItemOf(tests[k].nodeid).fspath)
        /\ ItemOf(tests[k].nodeid).lineno # None
        /\ tests[k].location = None
        /\ Len(tests[k].attempts) = 2

\* Every Attempt of a document, whatever Test Record holds it.
AttemptsIn(doc) ==
    UNION { Range(doc.tests[k].attempts) : k \in 1..Len(doc.tests) }

\* C19: in the report written, every Attempt has duration >= 0 and
\* startTimestamp > 0 and ends (startTimestamp + duration) no later than
\* the run does (the run's startTimestamp + duration), and the duration of
\* the run is >= 0.
C19_TimesWithinRun ==
    report_json # None =>
        LET doc == report_json[1] IN
        /\ doc.duration >= 0
        /\ \A a \in AttemptsIn(doc) :
              /\ a.duration >= 0
              /\ a.startTimestamp > 0
              /\ a.startTimestamp + a.duration
                    <= doc.startTimestamp + doc.duration

\* C19 witness: a report was written whose last Attempt took time and ended
\* when the run did.
C19_Witness ==
    /\ report_json # None
    /\ report_json[1].duration > 0
    /\ \E a \in AttemptsIn(report_json[1]) :
          /\ a.duration > 0
          /\ a.startTimestamp + a.duration
                = report_json[1].startTimestamp + report_json[1].duration
    /\ \E a \in AttemptsIn(report_json[1]) :
          a.startTimestamp + a.duration
            < report_json[1].startTimestamp + report_json[1].duration

\* C20: once pytest_sessionfinish has produced the report, no later event
\* changes it: no Test Record is added to it and no Attempt is appended to
\* any of its Test Records, whatever the event does to the tests mapping.
C20_ReportImmutable ==
    [][\A p \in Range(pending) :
          (Logs(p) /\ report_json # None) =>
             /\ report_json' # None
             /\ report_json'[1].tests = report_json[1].tests
             /\ report_json' = report_json]_vars

\* C20 witness: an event was recorded after the report was written, and
\* the report holds what it held.
C20_Witness ==
    /\ report_json # None
    /\ Len(report_json[1].tests) = 1
    /\ Len(report_json[1].tests[1].attempts) = 1
    /\ Len(tests) = 1
    /\ Len(tests[1].attempts) = 2

\* C21: no failure of persisting the local report (creating the output
\* directory, opening the file, writing it) leaves pytest_sessionfinish as
\* an exception.
C21_PersistFailureCaught == ~s_propagated

\* C22: a local report file exists only when an output directory is
\* configured, and it is then report.json inside that directory.
C22_WrittenOnlyWhereConfigured ==
    report_file # None =>
        /\ flakiness_output_dir # None
        /\ report_file[1] = flakiness_output_dir[1] \o <<"report.json">>

\* The number of Attempts in all Test Records.
RECURSIVE Total(_)
Total(ts) == IF ts = <<>> THEN 0 ELSE Len(Head(ts).attempts) + Total(Tail(ts))

C24_AppendOnly ==
    [][\A p \in Range(pending) :
          Logs(p) =>
             LET id == p.report.nodeid
                 n == Len(tests)
             IN  /\ Len(tests') >= n
                 /\ \A k \in 1..n :
                       /\ tests'[k].nodeid = tests[k].nodeid
                       /\ tests'[k].title = tests[k].title
                       /\ tests'[k].location = tests[k].location
                       /\ Len(tests'[k].attempts) >= Len(tests[k].attempts)
                       /\ SubSeq(tests'[k].attempts, 1, Len(tests[k].attempts))
                             = tests[k].attempts
                       /\ tests[k].nodeid # id => tests'[k] = tests[k]
                 /\ Recorded(tests, id) => Len(tests') = n
                 /\ ~Recorded(tests, id) /\ Recorded(tests', id) =>
                       /\ Len(tests') = n + 1
                       /\ tests'[n + 1].nodeid = id
                       /\ Len(tests'[n + 1].attempts) = 1]_vars

\* C24 witness: a Test Record holds the Attempts of two events, which
\* differ, the later one last.
C24_Witness ==
    /\ pending = None
    /\ Len(tests) = 1
    /\ Len(tests[1].attempts) = 2
    /\ tests[1].attempts[1].status = "failed"
    /\ tests[1].attempts[2].status = "passed"

\* C25: the Attempt recorded for an event has the outcome of the event as
\* its status, and its expectedStatus is "passed" exactly when the event
\* has no expected-failure mark (wasxfail) and its outcome is not skipped.
C25_StatusIsOutcome ==
    [][\A p \in Range(pending) :
          (Logs(p) /\ tests' # tests) =>
             LET r == p.report
                 a == LastAttempt(tests', r.nodeid)
             IN  /\ a.status = r.outcome
                 /\ a.expectedStatus = "passed"
                       <=> (~r.wasxfail /\ r.outcome # "skipped")]_vars

\* C25 witness: two passing calls are recorded, one expected to pass and
\* one, of a test marked xfail, expected to fail.
C25_Witness ==
    /\ pending = None
    /\ Len(tests) = 2
    /\ tests[1].attempts[1].status = "passed"
    /\ tests[1].attempts[1].expectedStatus = "passed"
    /\ tests[2].attempts[1].status = "passed"
    /\ tests[2].attempts[1].expectedStatus = "failed"

\* The Error records of all Attempts of all Test Records, each with the
\* item whose failure it describes.
ErrorsIn(ts) ==
    UNION { UNION { { <<ItemOf(ts[k].nodeid), e>> :
                        e \in Range(ts[k].attempts[j].errors) } :
                    j \in 1..Len(ts[k].attempts) } :
            k \in 1..Len(ts) }

\* C26: when the crash location of a failure is a file outside the
\* repository, the Error record recorded for it has no Location.
C26_OutsideCrashHasNoLocation ==
    \A x \in ErrorsIn(tests) :
        Outside(x[1].fspath) => x[2].location = None

\* C27: every Location recorded, of a Test Record or of an Error record,
\* has a line of at least 1 and a column of at least 1, and the line of a
\* Test Record is one more than the zero-based line the runner gave.
C27_LocationsOneBased ==
    /\ \A k \in 1..Len(tests) :
          tests[k].location # None =>
             /\ tests[k].location[1].line >= 1
             /\ tests[k].location[1].column >= 1
             /\ tests[k].location[1].line
                   = ItemOf(tests[k].nodeid).lineno[1] + 1
    /\ \A x \in ErrorsIn(tests) :
          x[2].location # None =>
             /\ x[2].location[1].line >= 1
             /\ x[2].location[1].column >= 1

\* C28: the Attempt recorded for an event holds exactly one Error record
\* when the outcome of the event is failed and the runner gave a failure
\* representation (longrepr), and none otherwise, so none for an outcome of
\* passed or skipped.
C28_AtMostOneError ==
    [][\A p \in Range(pending) :
          (Logs(p) /\ tests' # tests) =>
             LET r == p.report
                 a == LastAttempt(tests', r.nodeid)
             IN  Len(a.errors) = IF /\ r.outcome = "failed"
                                    /\ r.longrepr.kind # "None"
                                 THEN 1 ELSE 0]_vars

\* C28 witness: a test failed and was then skipped with a reason; the
\* first Attempt holds one Error record and the second holds none.
C28_Witness ==
    /\ pending = None
    /\ Len(tests) = 1
    /\ Len(tests[1].attempts) = 2
    /\ tests[1].attempts[1].status = "failed"
    /\ Len(tests[1].attempts[1].errors) = 1
    /\ tests[1].attempts[2].status = "skipped"
    /\ tests[1].attempts[2].errors = <<>>

(***************************************************************************)
(* Claims about parse_test_title and normalize_path, checked under         *)
(* SpecFunctions.                                                          *)
(***************************************************************************)

\* The positions at which a "::" separator starts.
SeparatorsAt(nodeid) ==
    { k \in 1..(Len(nodeid) - 1) : nodeid[k] = ":" /\ nodeid[k + 1] = ":" }

\* C12: the title is the test identifier with its leading segment, up to and
\* including the first "::", removed (whatever follows is kept, later "::"
\* separators and the "[variant-id]" suffix included), and it is the whole
\* identifier when that contains no "::".
C12_TitleStripsFirstSegment ==
    parsed_title # None =>
        LET nodeid == arg_nodeid[1]
            at == SeparatorsAt(nodeid)
        IN  IF at = {}
            THEN parsed_title[1] = nodeid
            ELSE \E k \in at :
                    /\ \A j \in at : k <= j
                    /\ nodeid = SubSeq(nodeid, 1, k + 1) \o parsed_title[1]

\* C12 witness: the title of an identifier with two "::" separators and a
\* variant suffix was parsed, and holds the second separator and the suffix.
C12_Witness ==
    /\ arg_nodeid = Some(<<"t", ":", ":", "t", ":", ":", "[1]">>)
    /\ parsed_title = Some(<<"t", ":", ":", "[1]">>)

\* The path is inside the repository root: normalize_path returned a path.
InsideRepository == normalized # <<>> /\ normalized[1] # None

\* C13: for every input path inside the repository root and either path
\* separator of the host, the result of normalize_path holds no backslash.
C13_NoBackslash ==
    InsideRepository => "\\" \notin Range(normalized[1][1])

\* C14: normalize_path applied to its own result returns that result, for
\* every path inside the repository and every choice of the two roots.
C14_Idempotent ==
    (InsideRepository /\ Len(normalized) = 2) => normalized[2] = normalized[1]

(***************************************************************************)
(* Claims about GithubOIDC, checked under SpecOidc.                        *)
(***************************************************************************)

Successful(status_code) == status_code >= 200 /\ status_code <= 299
FetchOver == o_pc \in {"returned", "raised"}

Given(v, empty) == v # None /\ v[1] # empty

\* C17: init_from_env returns an instance if and only if the request URL
\* and the request token are both present and non-empty; otherwise it
\* returns None, and then no token request is made.
C17_AvailableIffBothPresent ==
    o_pc # "env" =>
        /\ oidc # None <=>
              /\ Given(environ.ACTIONS_ID_TOKEN_REQUEST_URL, EmptyUrl)
              /\ Given(environ.ACTIONS_ID_TOKEN_REQUEST_TOKEN, "")
        /\ oidc # None =>
              /\ oidc[1]._request_url = environ.ACTIONS_ID_TOKEN_REQUEST_URL[1]
              /\ oidc[1]._request_token
                    = environ.ACTIONS_ID_TOKEN_REQUEST_TOKEN[1]
        /\ oidc = None => o_pc = "unavailable" /\ o_sent = <<>>

\* C17 witness: with a request URL set and an empty request token,
\* init_from_env returned None.
C17_Witness ==
    /\ o_pc = "unavailable"
    /\ Given(environ.ACTIONS_ID_TOKEN_REQUEST_URL, EmptyUrl)
    /\ environ.ACTIONS_ID_TOKEN_REQUEST_TOKEN = Some("")
    /\ oidc = None

====
